---- MODULE Spec2Model ----
(***************************************************************************)
(* rmduprs: Sambamba-consistent duplicate marking of a BAM file.           *)
(*                                                                         *)
(* The model follows main() of src/src/main.rs: a first pass over the      *)
(* input that resolves pairs and emits Metadata into sorted spill files,   *)
(* a k-way merge that assembles groups and calls identify_dups on each,    *)
(* and a second pass that rewrites every record with its DUPLICATE bit     *)
(* toggled.                                                                *)
(*                                                                         *)
(* An input record is [flag, name, lib, ref, pos, score]: flag is the BAM  *)
(* flag word, name the read name, and lib, ref, pos and score are what     *)
(* get_lib_id, reference_sequence_id, get_5p_pos and get_score return for  *)
(* the record.                                                             *)
(***************************************************************************)
EXTENDS Integers, Sequences, FiniteSets, TLC

VARIABLES
    remove_duplicates,      \* args.remove_duplicates
    batch_size,             \* args.batch_size
    pc,                     \* position in main(): "scan", "merge", "write"
    input,                  \* the records of the input file read so far
    pending_pairs,          \* read name -> first-seen mate
    chunk,                  \* the in-memory batch of Metadata
    tmp_files,              \* the spill files, each a sorted batch
    pe_second_ends,         \* (lib_id, ref_id, pos, rev) of right ends
    pe_count,
    se_count,
    unmatched_pairs_count,
    heap,                   \* the merge heap, a set of MergeItem
    readers,                \* per spill file, how many entries were read
    merged,                 \* history: the entries popped so far, in order
    group,                  \* the group buffer
    dup_mask,               \* the duplicate-index set (u32 keys)
    dup_idx64,              \* history: the untruncated indices inserted
    calls,                  \* history: the groups handed to identify_dups
    total_orphan,
    total_pe,
    total_se_only,
    record_count,           \* the records the second pass has gone through
    output,                 \* the record bytes written so far
    stream,                 \* the bytes of one spill file, as written/left
    decoded,                \* the entries read_from returned from stream
    status,                 \* of the reader of stream: "closed", "open",
                            \* "eof" (Ok(None)) or "error" (Err)
    lost                    \* how many bytes of stream went missing

vars == <<remove_duplicates, batch_size, pc, input, pending_pairs, chunk,
          tmp_files, pe_second_ends, pe_count, se_count,
          unmatched_pairs_count, heap, readers, merged, group, dup_mask,
          dup_idx64, calls, total_orphan, total_pe, total_se_only,
          record_count, output, stream, decoded, status, lost>>

---------------------------------------------------------------------------
(* Bounds of the model.                                                    *)

\* The longest input the model reads.
MaxRecs == 3

\* The number of values of the duplicate-index set's key type. The program's
\* key is a u32 (2^32 values); the model keeps the wrap-around of the cast
\* and scales the range down so that an input can exceed it.
U32Range == 2

\* The largest --batch-size the model runs with.
MaxBatch == 2

\* The longest group identify_dups is explored on by itself, and the
\* largest record index in such a group.
MaxGroup == 3
MaxIdx == 3

\* The longest batch written to a spill file whose bytes are modelled.
MaxWrite == 2

\* The longest input of paired reads the model reads (two pairs).
MaxPairRecs == 4

---------------------------------------------------------------------------
(* BAM flag bits (noodles Flags) and the two constants of io/mod.rs.       *)

SEGMENTED == 1
UNMAPPED == 4
MATE_UNMAPPED == 8
REVERSE_COMPLEMENTED == 16
SECONDARY == 256
SUPPLEMENTARY == 2048
DUPLICATE_FLAG == 1024
FLAG_OFFSET == 12

HasBit(flag, bit) == (flag \div bit) % 2 = 1

is_segmented(flag) == HasBit(flag, SEGMENTED)
is_unmapped(flag) == HasBit(flag, UNMAPPED)
is_mate_unmapped(flag) == HasBit(flag, MATE_UNMAPPED)
is_reverse_complemented(flag) == HasBit(flag, REVERSE_COMPLEMENTED)
is_secondary(flag) == HasBit(flag, SECONDARY)
is_supplementary(flag) == HasBit(flag, SUPPLEMENTARY)

\* `x as u32` of a usize or u64.
AsU32(x) == x % U32Range

\* `b as u8` of a bool.
BoolU8(b) == IF b THEN 1 ELSE 0

---------------------------------------------------------------------------
(* Metadata and its derived total order.                                   *)

\* The fields in the order of the struct, which is the order #[derive(Ord)]
\* compares them in.
MetaKey(m) == <<m.lib_id, m.ref_id1, m.pos1, m.rev1, m.rev2, m.ref_id2,
                m.pos2, m.score, m.idx1, m.idx2, m.paired_end>>

RECURSIVE LexLess(_, _)
LexLess(a, b) ==
    IF a = <<>> \/ b = <<>> THEN a = <<>> /\ b # <<>>
    ELSE IF Head(a) # Head(b) THEN Head(a) < Head(b)
    ELSE LexLess(Tail(a), Tail(b))

\* Metadata's `<`.
MetaLess(a, b) == LexLess(MetaKey(a), MetaKey(b))

RECURSIVE InsertSorted(_, _)
InsertSorted(m, s) ==
    IF s = <<>> THEN <<m>>
    ELSE IF MetaLess(m, Head(s)) THEN <<m>> \o s
    ELSE <<Head(s)>> \o InsertSorted(m, Tail(s))

\* chunk.par_sort_unstable(): the entries in ascending order. (Equal
\* entries are indistinguishable, so the instability of the sort shows in
\* no result.)
RECURSIVE SortChunk(_)
SortChunk(s) ==
    IF s = <<>> THEN <<>> ELSE InsertSorted(Head(s), SortChunk(Tail(s)))

\* Mutant: the batch is written as it is, without the sort.
save_chunk_parallel_Unsorted(c) == c

\* save_chunk_parallel: the spill file holds the sorted batch.
save_chunk_parallel(c) == SortChunk(c)

\* The fragment entry main() pushes for a record whose mate is unmapped or
\* that is not paired.
FragmentEntry(lib, ref, pos, rev, score, idx) ==
    [lib_id |-> lib, ref_id1 |-> ref, pos1 |-> pos, rev1 |-> BoolU8(rev),
     rev2 |-> 0, ref_id2 |-> -1, pos2 |-> 0, score |-> score,
     idx1 |-> idx, idx2 |-> 0, paired_end |-> 0]

\* Mutant: the sweep emits a pending read as a plain fragment.
ResiduePairedEnd_Zero == BoolU8(FALSE)

\* The value of paired_end the end-of-input sweep gives a pending read.
ResiduePairedEnd == 1

\* The entry the end-of-input sweep pushes for a read left in pending_pairs.
ResidueEntry(p) ==
    [lib_id |-> p.lib, ref_id1 |-> p.ref, pos1 |-> p.pos,
     rev1 |-> BoolU8(p.rev), rev2 |-> 0, ref_id2 |-> -1, pos2 |-> 0,
     score |-> p.score, idx1 |-> p.idx, idx2 |-> 0,
     paired_end |-> ResiduePairedEnd]

\* Mutant: the comparison looks at the reference only.
SelfIsLeft_RefOnly(ref_id, pos, m_ref, m_pos) == ref_id < m_ref

\* Whether the record being resolved is the left end of its pair.
SelfIsLeft(ref_id, pos, m_ref, m_pos) ==
    (ref_id < m_ref) \/ (ref_id = m_ref /\ pos < m_pos)

\* Mutant: the pair takes the library of the record that resolves it.
PairLib_Self(lib_id, m_lib) == lib_id

\* The library id of a resolved pair: that of the pending (first-seen) mate.
PairLib(lib_id, m_lib) == m_lib

\* The entry main() pushes when the record at `index` resolves the pending
\* mate m.
PairEntry(lib_id, ref_id, pos, rev, score, index, m) ==
    IF SelfIsLeft(ref_id, pos, m.ref, m.pos)
    THEN [lib_id |-> PairLib(lib_id, m.lib), ref_id1 |-> ref_id,
          pos1 |-> pos, rev1 |-> BoolU8(rev), rev2 |-> BoolU8(m.rev),
          ref_id2 |-> m.ref, pos2 |-> m.pos, score |-> score + m.score,
          idx1 |-> index, idx2 |-> m.idx, paired_end |-> 1]
    ELSE [lib_id |-> PairLib(lib_id, m.lib), ref_id1 |-> m.ref,
          pos1 |-> m.pos, rev1 |-> BoolU8(m.rev), rev2 |-> BoolU8(rev),
          ref_id2 |-> ref_id, pos2 |-> pos, score |-> score + m.score,
          idx1 |-> m.idx, idx2 |-> index, paired_end |-> 1]

\* The tuple main() inserts into pe_second_ends for a resolved pair.
SecondEndKey(e, m_lib) == <<m_lib, e.ref_id2, e.pos2, e.rev2>>

---------------------------------------------------------------------------
(* identify_dups (src/src/algorithm.rs).                                   *)

\* group.iter().partition(|m| m.ref_id2 != -1): the first half.
IsPe(m) == m.ref_id2 # -1

\* The entries of ses that count as fragments.
IsFragment(se) == se.paired_end = 0

\* The entries of ses that count as paired reads.
IsMate(se) == se.paired_end = 1

\* k_pos: 1 when the group's key is the right end of some pair.
KPos(g, pe2) ==
    IF <<g[1].lib_id, g[1].ref_id1, g[1].pos1, g[1].rev1>> \in pe2
    THEN 1 ELSE 0

\* Mutant: single-end entries with paired_end = 1 are no evidence.
SeenPairedRead_NoMates(paired_1, k_pe, k_pos) == k_pe > 0 \/ k_pos > 0

\* seen_paired_read.
SeenPairedRead(paired_1, k_pe, k_pos) ==
    paired_1 # <<>> \/ k_pe > 0 \/ k_pos > 0

\* Whether the fragment branch of identify_dups is entered.
Rule1Applies(total, seen_fragment) == total >= 2 /\ seen_fragment

\* Whether candidate i replaces the best fragment found so far.
FragmentBetter(cand, best) == cand.score > best.score

\* The loop `for i in 1..paired_0.len()`: the index of the kept fragment,
\* scanning from position i with best_idx the best so far (1-based).
RECURSIVE BestFragment(_, _, _)
BestFragment(paired_0, i, best_idx) ==
    IF i > Len(paired_0) THEN best_idx
    ELSE BestFragment(paired_0, i + 1,
             IF FragmentBetter(paired_0[i], paired_0[best_idx])
             THEN i ELSE best_idx)

\* The indices (u64) the orphan branch inserts.
OrphanIdx(paired_0) == { paired_0[i].idx1 : i \in 1..Len(paired_0) }

\* The indices (u64) the fragment-only branch inserts.
SeOnlyIdx(paired_0) ==
    LET best_idx == BestFragment(paired_0, 2, 1)
    IN { paired_0[i].idx1 : i \in (1..Len(paired_0)) \ {best_idx} }

\* Whether pes[j] continues the run that starts at pes[i].
SameMate(a, b) ==
    a.rev2 = b.rev2 /\ a.ref_id2 = b.ref_id2 /\ a.pos2 = b.pos2

\* Whether candidate j replaces the best pair found so far.
PairBetter(cand, best) == cand.score >= best.score

\* The inner while loop: <<j, best_idx>> when it stops.
RECURSIVE RunScan(_, _, _, _)
RunScan(pes, i, j, best_idx) ==
    IF j <= Len(pes) /\ SameMate(pes[i], pes[j])
    THEN RunScan(pes, i, j + 1,
             IF PairBetter(pes[j], pes[best_idx]) THEN j ELSE best_idx)
    ELSE <<j, best_idx>>

\* Mutant: a non-kept pair contributes its left mate only.
PairIdx_LeftOnly(m) == {m.idx1}

\* The indices (u64) one non-kept pair contributes.
PairIdx(m) == {m.idx1, m.idx2}

\* The outer while loop from position i: the positions of pes that are
\* marked (every entry of a run except its kept one).
RECURSIVE Rule2Marked(_, _)
Rule2Marked(pes, i) ==
    IF i > Len(pes) THEN {}
    ELSE LET r == RunScan(pes, i, i + 1, i)
         IN ((i..(r[1] - 1)) \ {r[2]}) \cup Rule2Marked(pes, r[1])

\* Whether the pair branch of identify_dups is entered.
Rule2Applies(pes) == Len(pes) >= 2

\* mask.insert(idx as u32) for every idx of s.
MaskInsertAll(mask, s) == mask \cup { AsU32(i) : i \in s }

\* identify_dups(group, mask, pe_second_ends): the mask after the call, the
\* three counts it returns, and idx64, the indices it inserted before their
\* cast to u32.
identify_dups(g, mask, pe2) ==
    IF g = <<>>
    THEN [mask |-> mask, idx64 |-> {}, orphan |-> 0, pe |-> 0, se_only |-> 0]
    ELSE
    LET pes == SelectSeq(g, IsPe)
        ses == SelectSeq(g, LAMBDA m : ~IsPe(m))
        paired_0 == SelectSeq(ses, IsFragment)
        paired_1 == SelectSeq(ses, IsMate)
        k_pe == Len(pes)
        k_pos == KPos(g, pe2)
        k == Len(paired_0) + Len(paired_1)
        total == k + k_pe + k_pos
        seen_fragment == paired_0 # <<>>
        seen_paired_read == SeenPairedRead(paired_1, k_pe, k_pos)
        rule1 == Rule1Applies(total, seen_fragment)
        orphans == IF rule1 /\ seen_paired_read
                   THEN OrphanIdx(paired_0) ELSE {}
        orphan_marked == IF rule1 /\ seen_paired_read
                         THEN Len(paired_0) ELSE 0
        se_only == IF rule1 /\ ~seen_paired_read /\ Len(paired_0) >= 2
                   THEN SeOnlyIdx(paired_0) ELSE {}
        se_only_marked == IF rule1 /\ ~seen_paired_read /\ Len(paired_0) >= 2
                          THEN Len(paired_0) - 1 ELSE 0
        marked == IF Rule2Applies(pes) THEN Rule2Marked(pes, 1) ELSE {}
        pe_idx == UNION { PairIdx(pes[x]) : x \in marked }
        all == orphans \cup se_only \cup pe_idx
    IN [mask |-> MaskInsertAll(mask, all), idx64 |-> all,
        orphan |-> orphan_marked, pe |-> 2 * Cardinality(marked),
        se_only |-> se_only_marked]

\* The group key the classifier compares in main().
GroupKey(m) == <<m.lib_id, m.ref_id1, m.pos1, m.rev1>>

---------------------------------------------------------------------------
(* The rewriter's byte operations (src/src/io/mod.rs).                     *)

\* record_to_bytes: the bytes the BAM writer produces for a record, in the
\* layout src/src/io/mod.rs documents at FLAG_OFFSET: twelve bytes (ref_id,
\* pos, bin_mq_nl) that the program neither reads nor writes, kept as
\* zeros, and then the flag, little-endian. The writer itself is the
\* noodles crate's.
record_to_bytes(r) ==
    [i \in 1..(FLAG_OFFSET + 2) |->
        IF i = FLAG_OFFSET + 1 THEN r.flag % 256
        ELSE IF i = FLAG_OFFSET + 2 THEN r.flag \div 256
        ELSE 0]

\* u16::from_le_bytes of the two bytes at FLAG_OFFSET.
FlagOfBytes(data) == data[FLAG_OFFSET + 1] + 256 * data[FLAG_OFFSET + 2]

\* flag | DUPLICATE_FLAG and flag & !DUPLICATE_FLAG.
SetDup(flag) ==
    IF HasBit(flag, DUPLICATE_FLAG) THEN flag ELSE flag + DUPLICATE_FLAG
ClearDup(flag) ==
    IF HasBit(flag, DUPLICATE_FLAG) THEN flag - DUPLICATE_FLAG ELSE flag

toggle_duplicate_flag(data, is_duplicate) ==
    IF Len(data) < FLAG_OFFSET + 2 THEN data
    ELSE LET flag == FlagOfBytes(data)
             new_flag == IF is_duplicate THEN SetDup(flag) ELSE ClearDup(flag)
         IN [data EXCEPT ![FLAG_OFFSET + 1] = new_flag % 256,
                         ![FLAG_OFFSET + 2] = new_flag \div 256]

\* dup_mask.contains(idx as u32).
is_duplicate(idx, mask) == AsU32(idx) \in mask

\* Whether the second pass touches the flag of a record.
Toggles(flag) == ~is_secondary(flag) /\ ~is_supplementary(flag)

\* Whether the second pass writes a record at all.
Written(flag, is_dup, remove) == TRUE

---------------------------------------------------------------------------
(* The inputs the model draws records from.                                *)

Rec(flag, name, lib, ref, pos, score) ==
    [flag |-> flag, name |-> name, lib |-> lib, ref |-> ref, pos |-> pos,
     score |-> score]

\* Every record with a flag of fs, a name of ns, a library of ls, a
\* coordinate (ref, pos) of cs and a score of ss.
RecordSet(fs, ns, ls, cs, ss) ==
    { Rec(f, n, l, c[1], c[2], s) :
        f \in fs, n \in ns, l \in ls, c \in cs, s \in ss }

\* The records the first pass is explored over. Reads named "a" are paired
\* reads with a mapped mate: forward ones at three coordinates (two
\* references, two positions on one of them), one more of a second
\* library, and reverse ones at two of the coordinates; reads named "b"
\* are a second pair that interleaves with them.
\* With them: fragments at two of the coordinates, a read named "a" whose
\* mate is unmapped, and two records the first pass skips, an unmapped one
\* and a secondary alignment of a paired read named "a".
InputRecords ==
    RecordSet({SEGMENTED}, {"a"}, {0}, {<<0, 5>>, <<0, 7>>, <<1, 3>>}, {1})
    \cup RecordSet({SEGMENTED}, {"a"}, {1}, {<<0, 7>>}, {1})
    \cup RecordSet({SEGMENTED + REVERSE_COMPLEMENTED}, {"a"}, {0},
                   {<<0, 5>>, <<0, 7>>}, {1})
    \cup RecordSet({SEGMENTED}, {"b"}, {0}, {<<0, 5>>, <<0, 7>>}, {1})
    \cup RecordSet({0}, {"f"}, {0}, {<<0, 5>>, <<0, 7>>}, {1})
    \cup RecordSet({SEGMENTED + MATE_UNMAPPED}, {"a"}, {0}, {<<0, 5>>}, {1})
    \cup RecordSet({UNMAPPED}, {"u"}, {0}, {<<-1, -1>>}, {0})
    \cup RecordSet({SEGMENTED + SECONDARY}, {"a"}, {0}, {<<0, 5>>}, {1})

---------------------------------------------------------------------------
(* main(): the first pass.                                                 *)

\* The state main() starts the first pass in, for the given value of
\* --remove-duplicates.
InitWith(remove) ==
    /\ remove_duplicates = remove
    /\ batch_size \in 1..MaxBatch
    /\ pc = "scan"
    /\ input = <<>>
    /\ pending_pairs = <<>>
    /\ chunk = <<>>
    /\ tmp_files = <<>>
    /\ pe_second_ends = {}
    /\ pe_count = 0
    /\ se_count = 0
    /\ unmatched_pairs_count = 0
    /\ heap = {}
    /\ readers = <<>>
    /\ merged = <<>>
    /\ group = <<>>
    /\ dup_mask = {}
    /\ dup_idx64 = {}
    /\ calls = <<>>
    /\ total_orphan = 0
    /\ total_pe = 0
    /\ total_se_only = 0
    /\ record_count = 0
    /\ output = <<>>
    /\ stream = <<>>
    /\ decoded = <<>>
    /\ status = "closed"
    /\ lost = 0

\* --remove-duplicates is a flag: it is off unless given.
Init == InitWith(FALSE)

\* The run with --remove-duplicates given.
InitRemove == InitWith(TRUE)

mergeVars == <<heap, readers, merged, group, dup_mask, dup_idx64, calls,
               total_orphan, total_pe, total_se_only>>
writeVars == <<record_count, output>>
argVars == <<remove_duplicates, batch_size>>
codecVars == <<stream, decoded, status, lost>>
scanVars == <<pending_pairs, chunk, tmp_files, pe_second_ends, pe_count,
              se_count, unmatched_pairs_count>>

\* Mutant: a record that already carries the DUPLICATE flag is skipped too.
Skipped_Duplicates(flag) ==
    \/ is_unmapped(flag) \/ is_secondary(flag) \/ is_supplementary(flag)
    \/ HasBit(flag, DUPLICATE_FLAG)

\* The first-pass filter: records that emit nothing.
Skipped(flag) ==
    is_unmapped(flag) \/ is_secondary(flag) \/ is_supplementary(flag)

\* Whether a record goes through the pending-pair map.
Pairable(flag) == is_segmented(flag) /\ ~is_mate_unmapped(flag)

\* What pending_pairs holds for a first-seen mate.
PendingOf(r, index) ==
    [lib |-> r.lib, ref |-> r.ref, pos |-> r.pos,
     rev |-> is_reverse_complemented(r.flag), score |-> r.score,
     idx |-> index]

\* Mutant: a resolved mate stays in the map.
MapRemove_Keep(map, key) == map

MapRemove(map, key) == [k \in (DOMAIN map) \ {key} |-> map[k]]
MapInsert(map, key, val) ==
    [k \in (DOMAIN map) \cup {key} |-> IF k = key THEN val ELSE map[k]]

\* Whether the batch is handed to the sorter after a record.
ChunkFull(c, size) == Len(c) >= size

\* The tail of one loop iteration: `if chunk.len() >= args.batch_size`.
SpillIfFull(c) ==
    IF ChunkFull(c, batch_size)
    THEN /\ chunk' = <<>>
         /\ tmp_files' = Append(tmp_files, save_chunk_parallel(c))
    ELSE /\ chunk' = c
         /\ UNCHANGED tmp_files

\* One iteration of `for (index, result) in reader.records().enumerate()`
\* over a record r of the input domain D, of an input of at most n records.
ScanUpTo(D, n) ==
    /\ pc = "scan"
    /\ Len(input) < n
    /\ \E r \in D :
        LET index == Len(input)
            rev == is_reverse_complemented(r.flag)
        IN
        /\ input' = Append(input, r)
        /\ IF Skipped(r.flag)
           THEN UNCHANGED scanVars
           ELSE IF Pairable(r.flag)
           THEN IF r.name \in DOMAIN pending_pairs
                THEN LET m == pending_pairs[r.name]
                         e == PairEntry(r.lib, r.ref, r.pos, rev, r.score,
                                        index, m)
                     IN /\ pending_pairs' = MapRemove(pending_pairs, r.name)
                        /\ pe_second_ends' =
                              pe_second_ends \cup {SecondEndKey(e, m.lib)}
                        /\ pe_count' = pe_count + 1
                        /\ SpillIfFull(Append(chunk, e))
                        /\ UNCHANGED <<se_count, unmatched_pairs_count>>
                ELSE /\ pending_pairs' =
                          MapInsert(pending_pairs, r.name,
                                    PendingOf(r, index))
                     /\ SpillIfFull(chunk)
                     /\ UNCHANGED <<pe_second_ends, pe_count, se_count,
                                    unmatched_pairs_count>>
           ELSE /\ se_count' = se_count + 1
                /\ SpillIfFull(Append(chunk,
                       FragmentEntry(r.lib, r.ref, r.pos, rev, r.score,
                                     index)))
                /\ UNCHANGED <<pending_pairs, pe_second_ends, pe_count,
                               unmatched_pairs_count>>
    /\ UNCHANGED <<pc, argVars, mergeVars, writeVars, codecVars>>

\* The same, for the inputs of at most MaxRecs records.
ScanRecord(D) == ScanUpTo(D, MaxRecs)

\* The orders a HashMap of these keys can be iterated in.
IterationOrders(keys) ==
    { o \in [1..Cardinality(keys) -> keys] :
        \A i, j \in 1..Cardinality(keys) : i # j => o[i] # o[j] }

\* Metadata::read_from on a spill file of which n entries were read: the
\* next entry, or <<>> at the end of the stream.
read_from(file, n) == IF n < Len(file) THEN <<file[n + 1]>> ELSE <<>>

\* The end of the input: the sweep of pending_pairs, the spill of the last
\* batch, and the seeding of the merge heap with each file's first entry.
EndOfInput ==
    /\ pc = "scan"
    /\ \E order \in IterationOrders(DOMAIN pending_pairs) :
        LET residue == [i \in 1..Len(order) |->
                           ResidueEntry(pending_pairs[order[i]])]
            last == chunk \o residue
            files == IF last # <<>>
                     THEN Append(tmp_files, save_chunk_parallel(last))
                     ELSE tmp_files
        IN
        /\ chunk' = <<>>
        /\ tmp_files' = files
        /\ se_count' = se_count + Len(order)
        /\ unmatched_pairs_count' = unmatched_pairs_count + Len(order)
        /\ readers' = [i \in 1..Len(files) |->
                          Len(read_from(files[i], 0))]
        /\ heap' = { [data |-> files[i][1], f_idx |-> i] :
                        i \in { x \in 1..Len(files) :
                                  read_from(files[x], 0) # <<>> } }
    /\ pc' = "merge"
    /\ UNCHANGED <<argVars, input, pending_pairs, pe_second_ends, pe_count,
                   merged, group, dup_mask, dup_idx64, calls, total_orphan,
                   total_pe, total_se_only, writeVars, codecVars>>

---------------------------------------------------------------------------
(* main(): the merge and the classification.                               *)

\* Mutant: MergeItem ordered as its Metadata, so that pop returns the
\* greatest Metadata. (As written, MergeItem's Ord is the reverse of its
\* Metadata's, so the greatest item holds the least Metadata.)
HeapTop_Max(h) == { it \in h : \A o \in h : ~MetaLess(it.data, o.data) }

\* The items BinaryHeap::pop can return (see above).
HeapTop(h) == { it \in h : \A o \in h : ~MetaLess(o.data, it.data) }

\* Mutant: the strand of the left end is not compared.
KeyChanged_NoRev(d, first) ==
    \/ d.lib_id # first.lib_id
    \/ d.ref_id1 # first.ref_id1
    \/ d.pos1 # first.pos1

\* Whether the popped entry starts a new group.
KeyChanged(d, first) ==
    \/ d.lib_id # first.lib_id
    \/ d.ref_id1 # first.ref_id1
    \/ d.pos1 # first.pos1
    \/ d.rev1 # first.rev1

\* The call of identify_dups in main() and the sums after it.
Classify(g) ==
    LET res == identify_dups(g, dup_mask, pe_second_ends)
    IN /\ dup_mask' = res.mask
       /\ dup_idx64' = dup_idx64 \cup res.idx64
       /\ total_orphan' = total_orphan + res.orphan
       /\ total_pe' = total_pe + res.pe
       /\ total_se_only' = total_se_only + res.se_only
       /\ calls' = Append(calls, g)

\* One iteration of `while let Some(item) = heap.pop()`.
MergePop ==
    /\ pc = "merge"
    /\ \E item \in HeapTop(heap) :
        LET flush == group # <<>> /\ KeyChanged(item.data, group[1])
            next == read_from(tmp_files[item.f_idx], readers[item.f_idx])
        IN
        /\ IF flush
           THEN /\ Classify(group)
                /\ group' = <<item.data>>
           ELSE /\ group' = Append(group, item.data)
                /\ UNCHANGED <<dup_mask, dup_idx64, total_orphan, total_pe,
                               total_se_only, calls>>
        /\ merged' = Append(merged, item.data)
        /\ readers' = [readers EXCEPT ![item.f_idx] = @ + Len(next)]
        /\ heap' = (heap \ {item}) \cup
                   { [data |-> next[i], f_idx |-> item.f_idx] :
                       i \in 1..Len(next) }
    /\ UNCHANGED <<pc, argVars, input, scanVars, writeVars, codecVars>>

\* The call of identify_dups after the loop, on the last group.
MergeFinish ==
    /\ pc = "merge"
    /\ heap = {}
    /\ Classify(group)
    /\ pc' = "write"
    /\ UNCHANGED <<argVars, input, scanVars, heap, readers, merged, group,
                   writeVars, codecVars>>

---------------------------------------------------------------------------
(* main(): the second pass.                                                *)

\* One iteration of `for (idx, result) in reader.records().enumerate()`.
WriteRecord ==
    /\ pc = "write"
    /\ record_count < Len(input)
    /\ LET idx == record_count
           record == input[idx + 1]
           data == record_to_bytes(record)
           is_dup == is_duplicate(idx, dup_mask)
           out == IF Toggles(record.flag)
                  THEN toggle_duplicate_flag(data, is_dup)
                  ELSE data
       IN output' = IF Written(record.flag, is_dup, remove_duplicates)
                    THEN Append(output, out)
                    ELSE output
    /\ record_count' = record_count + 1
    /\ UNCHANGED <<pc, argVars, input, scanVars, mergeVars, codecVars>>

\* The run is over: every record of the input went through the second pass.
Done == pc = "write" /\ record_count = Len(input)

Next ==
    \/ ScanRecord(InputRecords)
    \/ EndOfInput
    \/ MergePop
    \/ MergeFinish
    \/ WriteRecord

Spec == Init /\ [][Next]_vars

SpecRemove == InitRemove /\ [][Next]_vars

---------------------------------------------------------------------------
(* What the properties below speak of.                                     *)

RECURSIVE Concat(_)
Concat(ss) == IF ss = <<>> THEN <<>> ELSE Head(ss) \o Concat(Tail(ss))

\* Every Metadata entry emitted so far: the spilled batches, then the batch
\* in memory.
Emitted == Concat(tmp_files) \o chunk

Range(f) == { f[x] : x \in DOMAIN f }

\* The input-order indices of the records read so far.
Indices == 0..(Len(input) - 1)

RecordAt(i) == input[i + 1]

\* A mapped primary record: not unmapped, not secondary, not supplementary.
MappedPrimary(i) ==
    /\ ~HasBit(RecordAt(i).flag, UNMAPPED)
    /\ ~HasBit(RecordAt(i).flag, SECONDARY)
    /\ ~HasBit(RecordAt(i).flag, SUPPLEMENTARY)

\* The indices held by the pending-pair map. The sweep iterates the map by
\* value and nothing reads it afterwards; the model keeps its value, so
\* after the scan these are the indices of the swept reads.
PendingIdx == { pending_pairs[n].idx : n \in DOMAIN pending_pairs }

SweptIdx == IF pc = "scan" THEN {} ELSE PendingIdx

\* An entry of a resolved pair, and the entries that hold one record only.
IsPairEntry(e) == e.paired_end = 1 /\ e.idx1 \notin SweptIdx

IndicesOf(e) == IF IsPairEntry(e) THEN {e.idx1, e.idx2} ELSE {e.idx1}

\* The positions of Emitted whose entry holds record i.
Occurrences(i) ==
    { k \in 1..Len(Emitted) : i \in IndicesOf(Emitted[k]) }

PairEntries == { e \in Range(Emitted) : IsPairEntry(e) }

Min(a, b) == IF a < b THEN a ELSE b

---------------------------------------------------------------------------
(* C5 *)

\* C5: during the scan every processed mapped primary record is in exactly
\* one of an emitted entry and the pending-pair map; after the end-of-input
\* sweep it is in exactly one emitted entry (as idx1 of a fragment entry or
\* as idx1 or idx2 of one pair entry); no skipped record is in any entry or
\* in the map; and the number of emitted entries is the number of mapped
\* primary records minus the number of resolved pairs.
C5_OneEntryPerMappedPrimary ==
    /\ \A i \in Indices :
        IF ~MappedPrimary(i)
        THEN Occurrences(i) = {} /\ i \notin PendingIdx
        ELSE IF pc = "scan"
        THEN \/ Cardinality(Occurrences(i)) = 1 /\ i \notin PendingIdx
             \/ Occurrences(i) = {} /\ i \in PendingIdx
        ELSE Cardinality(Occurrences(i)) = 1
    /\ \A e \in PairEntries : e.idx1 # e.idx2
    /\ pe_count = Cardinality(PairEntries)
    /\ pc # "scan" =>
         Len(Emitted) =
            Cardinality({ i \in Indices : MappedPrimary(i) }) - pe_count

\* C5 witness: the sweep has run on an input with a resolved pair and a
\* read whose mate never arrived.
C5_Witness ==
    /\ pc = "merge"
    /\ pe_count = 1
    /\ unmatched_pairs_count = 1
    /\ Len(Emitted) = 2

---------------------------------------------------------------------------
(* C6 *)

---------------------------------------------------------------------------
(* C7 *)

\* The swept entries of a group, and its fragment entries.
SweptOf(g) == { e \in Range(g) : e.ref_id2 = -1 /\ e.idx1 \in SweptIdx }
FragmentsOf(g) == { f \in Range(g) : f.ref_id2 = -1 /\ f.paired_end = 0 }

---------------------------------------------------------------------------
(* C8 *)

\* (ref_id1, pos1) <= (ref_id2, pos2), lexicographically.
Canonical(e) ==
    e.ref_id1 < e.ref_id2 \/ (e.ref_id1 = e.ref_id2 /\ e.pos1 <= e.pos2)

\* Whether (ref, pos, rev) is the coordinate and strand of record i.
EndOf(i, ref, pos, rev) ==
    /\ RecordAt(i).ref = ref
    /\ RecordAt(i).pos = pos
    /\ (rev = 1) <=> HasBit(RecordAt(i).flag, REVERSE_COMPLEMENTED)
    /\ rev \in {0, 1}

\* C8: every pair entry has (ref_id1, pos1) <= (ref_id2, pos2), whichever
\* mate came first, and idx1 and idx2 are the distinct indices of its two
\* mates: two paired records of one name, the left end being the record at
\* idx1 and the right end the record at idx2.
C8_PairCanonical ==
    \A e \in PairEntries :
        /\ Canonical(e)
        /\ e.idx1 # e.idx2
        /\ e.idx1 \in Indices /\ e.idx2 \in Indices
        /\ RecordAt(e.idx1).name = RecordAt(e.idx2).name
        /\ HasBit(RecordAt(e.idx1).flag, SEGMENTED)
        /\ HasBit(RecordAt(e.idx2).flag, SEGMENTED)
        /\ EndOf(e.idx1, e.ref_id1, e.pos1, e.rev1)
        /\ EndOf(e.idx2, e.ref_id2, e.pos2, e.rev2)

\* C8 witness: a pair on one reference whose later mate is the left end.
C8_Witness ==
    \E e \in PairEntries :
        e.idx1 > e.idx2 /\ e.ref_id1 = e.ref_id2 /\ e.pos1 < e.pos2

---------------------------------------------------------------------------
(* C9 *)

\* The library of the first-seen mate of a pair entry.
FirstSeenLib(e) == RecordAt(Min(e.idx1, e.idx2)).lib

\* C9: the PE-second-end set is exactly the set of (library of the
\* first-seen mate, ref_id2, pos2, rev2) over the resolved pairs, the right
\* end being that of the emitted entry; the lib_id of the entry is the
\* library of the first-seen mate too; fragments and pending or swept reads
\* add nothing.
C9_SecondEnds ==
    /\ pe_second_ends =
          { <<FirstSeenLib(e), e.ref_id2, e.pos2, e.rev2>> :
              e \in PairEntries }
    /\ \A e \in PairEntries : e.lib_id = FirstSeenLib(e)

\* C9 witness: the scan is over, a pair whose mates are of two libraries
\* was resolved, and a read was swept.
C9_Witness ==
    /\ pc = "merge"
    /\ unmatched_pairs_count = 1
    /\ \E e \in PairEntries :
         RecordAt(e.idx1).lib # RecordAt(e.idx2).lib

---------------------------------------------------------------------------
(* C1 to C4: the second pass.                                              *)

\* The sixteen bits of a BAM flag word.
FlagBits == {1, 2, 4, 8, 16, 32, 64, 128, 256, 512, 1024, 2048, 4096, 8192,
             16384, 32768}

\* A record that is neither secondary nor supplementary.
NonSpecial(i) ==
    /\ ~HasBit(RecordAt(i).flag, SECONDARY)
    /\ ~HasBit(RecordAt(i).flag, SUPPLEMENTARY)

\* The indices of the records the second pass has gone through.
Rewritten == 0..(record_count - 1)

\* The flag word of the k-th record of the output.
OutFlag(k) == output[k][FLAG_OFFSET + 1] + 256 * output[k][FLAG_OFFSET + 2]

\* The records a run with --remove-duplicates is to write: all but the
\* non-secondary, non-supplementary ones whose index is in the set.
KeptIdx == { i \in Indices : ~(NonSpecial(i) /\ i \in dup_mask) }

\* The k-th smallest element of a set of numbers.
RECURSIVE Nth(_, _)
Nth(S, k) ==
    LET m == CHOOSE x \in S : \A y \in S : x <= y
    IN IF k = 1 THEN m ELSE Nth(S \ {m}, k - 1)

\* C1: with remove_duplicates enabled, the output holds no non-secondary,
\* non-supplementary record whose index is in the duplicate-index set, and
\* holds every other record, in input order.
C1_RemoveDuplicates ==
    (remove_duplicates /\ Done) =>
        /\ Len(output) = Cardinality(KeptIdx)
        /\ \A k \in 1..Len(output) :
             \A b \in FlagBits \ {DUPLICATE_FLAG} :
                HasBit(OutFlag(k), b) <=>
                    HasBit(RecordAt(Nth(KeptIdx, k)).flag, b)

\* C2: the record at index i, if neither secondary nor supplementary, is
\* written with bit 0x400 set when i is in the duplicate-index set and
\* cleared when it is not, every other bit of its flag as in the input; a
\* secondary or supplementary record is written with its flag unchanged.
C2_FlagToggled ==
    (Len(output) = record_count) =>
    \A i \in Rewritten :
        IF NonSpecial(i)
        THEN /\ HasBit(OutFlag(i + 1), DUPLICATE_FLAG) <=> i \in dup_mask
             /\ \A b \in FlagBits \ {DUPLICATE_FLAG} :
                  HasBit(OutFlag(i + 1), b) <=> HasBit(RecordAt(i).flag, b)
        ELSE OutFlag(i + 1) = RecordAt(i).flag

\* C3: an output record that carries the DUPLICATE flag has its index in
\* the duplicate-index set, and every index of the set that is the index of
\* a non-secondary, non-supplementary record carries the flag in the output.
C3_MarkedIffInSet ==
    (Len(output) = record_count) =>
    /\ \A i \in Rewritten :
         HasBit(OutFlag(i + 1), DUPLICATE_FLAG) => i \in dup_mask
    /\ \A j \in dup_mask :
         (j \in Rewritten /\ NonSpecial(j)) =>
             HasBit(OutFlag(j + 1), DUPLICATE_FLAG)

\* C4: indices are not truncated. The duplicate-index set is keyed by the
\* full index: it holds exactly the indices classification inserted, and a
\* record is marked only if its own index was inserted (never because an
\* index that differs from it by a multiple of the key range was).
C4_NoTruncation ==
    /\ dup_mask = dup_idx64
    /\ (Len(output) = record_count) =>
         \A i \in Rewritten :
            (NonSpecial(i) /\ HasBit(OutFlag(i + 1), DUPLICATE_FLAG)) =>
                i \in dup_idx64

---------------------------------------------------------------------------
(* identify_dups by itself: one call on a group of one key.                *)

\* The entries of the groups: all of key (0, 0, 5, forward). Fragments and
\* swept reads of two scores, and pairs of two scores whose right end is at
\* one of two coordinates; an entry's records are idx1 and, for a pair, the
\* record after it.
GroupEntries ==
    { FragmentEntry(0, 0, 5, FALSE, s, i) : s \in {1, 2}, i \in 0..MaxIdx }
    \cup { ResidueEntry([lib |-> 0, ref |-> 0, pos |-> 5, rev |-> FALSE,
                         score |-> 1, idx |-> i]) : i \in 0..MaxIdx }
    \cup { PairEntry(0, c[1], c[2], c[3], s - 1, (i + 1) % (MaxIdx + 1),
                     [lib |-> 0, ref |-> 0, pos |-> 5, rev |-> FALSE,
                      score |-> 1, idx |-> i]) :
             c \in {<<0, 7, FALSE>>, <<1, 3, TRUE>>}, s \in {2, 3},
             i \in 0..MaxIdx }

\* The records of an entry, by what the entry itself says.
RecordsOf(e) == IF e.ref_id2 # -1 THEN {e.idx1, e.idx2} ELSE {e.idx1}

\* The groups the merge can hand over: ascending in Metadata's order, no
\* record in two entries.
Groups ==
    UNION { { g \in [1..n -> GroupEntries] :
                \A i, j \in 1..n :
                    i < j => /\ MetaLess(g[i], g[j])
                             /\ RecordsOf(g[i]) \cap RecordsOf(g[j]) = {} } :
            n \in 1..MaxGroup }

\* A call of identify_dups on a group, with the group's key a second end
\* or not.
InitClassify ==
    /\ remove_duplicates = FALSE
    /\ batch_size = 1
    /\ pc = "classify"
    /\ input = <<>>
    /\ pending_pairs = <<>>
    /\ chunk = <<>>
    /\ tmp_files = <<>>
    /\ pe_second_ends \in {{}, {<<0, 0, 5, 0>>}, {<<0, 0, 7, 0>>}}
    /\ pe_count = 0
    /\ se_count = 0
    /\ unmatched_pairs_count = 0
    /\ heap = {}
    /\ readers = <<>>
    /\ merged = <<>>
    /\ group \in Groups
    /\ dup_mask = {}
    /\ dup_idx64 = {}
    /\ calls = <<>>
    /\ total_orphan = 0
    /\ total_pe = 0
    /\ total_se_only = 0
    /\ record_count = 0
    /\ output = <<>>
    /\ stream = <<>>
    /\ decoded = <<>>
    /\ status = "closed"
    /\ lost = 0

\* The call: identify_dups(&group, &mut dup_mask, &pe_second_ends).
ClassifyGroup ==
    /\ pc = "classify"
    /\ Classify(group)
    /\ pc' = "classified"
    /\ UNCHANGED <<argVars, input, scanVars, heap, readers, merged, group,
                   writeVars, codecVars>>

NextClassify == ClassifyGroup

SpecClassify == InitClassify /\ [][NextClassify]_vars

---------------------------------------------------------------------------
(* C10 *)

\* Paired-read evidence in a group: a pair entry, a single-end entry with
\* paired_end = 1, or the key of the group being a second end.
Evidence(g, pe2) ==
    \/ \E m \in Range(g) : m.ref_id2 # -1
    \/ \E m \in Range(g) : m.ref_id2 = -1 /\ m.paired_end = 1
    \/ <<g[1].lib_id, g[1].ref_id1, g[1].pos1, g[1].rev1>> \in pe2

\* C10: after identify_dups on a group with at least one fragment entry and
\* paired-read evidence, idx1 of every fragment entry of the group is in
\* the duplicate-index set and the orphan count is the number of those
\* fragments; on a group of a single fragment and no evidence nothing is
\* marked.
C10_Orphans ==
    pc = "classified" =>
        /\ (FragmentsOf(group) # {} /\ Evidence(group, pe_second_ends)) =>
              /\ \A f \in FragmentsOf(group) : f.idx1 \in dup_mask
              /\ total_orphan = Cardinality(FragmentsOf(group))
        /\ (Len(group) = 1 /\ FragmentsOf(group) # {}
                /\ ~Evidence(group, pe_second_ends)) =>
              /\ dup_mask = {}
              /\ total_orphan = 0 /\ total_pe = 0 /\ total_se_only = 0

\* C10 with the cast in it: the same, for the key idx1 is cast to.
C10_OrphansByKey ==
    pc = "classified" =>
        /\ (FragmentsOf(group) # {} /\ Evidence(group, pe_second_ends)) =>
              /\ \A f \in FragmentsOf(group) :
                    f.idx1 \in dup_idx64 /\ AsU32(f.idx1) \in dup_mask
              /\ total_orphan = Cardinality(FragmentsOf(group))
        /\ (Len(group) = 1 /\ FragmentsOf(group) # {}
                /\ ~Evidence(group, pe_second_ends)) =>
              /\ dup_mask = {}
              /\ total_orphan = 0 /\ total_pe = 0 /\ total_se_only = 0

---------------------------------------------------------------------------
(* C11 *)

\* A group of two or more fragment entries and no paired-read evidence.
FragmentOnly(g, pe2) ==
    /\ Len(g) >= 2
    /\ \A k \in 1..Len(g) : g[k].ref_id2 = -1 /\ g[k].paired_end = 0
    /\ ~Evidence(g, pe2)

\* C11: after identify_dups on a group of n >= 2 fragments and no
\* paired-read evidence, exactly one fragment is not in the duplicate-index
\* set, it has the greatest score of the group and is the first of the
\* group with that score, idx1 of each of the others is in the set, and
\* the se_only count is n - 1.
C11_FragmentOnly ==
    (pc = "classified" /\ FragmentOnly(group, pe_second_ends)) =>
        /\ \E k \in 1..Len(group) :
              /\ group[k].idx1 \notin dup_mask
              /\ \A j \in 1..Len(group) : group[j].score <= group[k].score
              /\ \A j \in 1..(k - 1) : group[j].score < group[k].score
              /\ \A j \in (1..Len(group)) \ {k} : group[j].idx1 \in dup_mask
        /\ total_se_only = Len(group) - 1

\* C11 with the cast in it: the same for the indices identify_dups passes
\* to insert, each of which is in the set under the u32 it is cast to.
C11_FragmentOnlyByKey ==
    (pc = "classified" /\ FragmentOnly(group, pe_second_ends)) =>
        /\ \E k \in 1..Len(group) :
              /\ group[k].idx1 \notin dup_idx64
              /\ \A j \in 1..Len(group) : group[j].score <= group[k].score
              /\ \A j \in 1..(k - 1) : group[j].score < group[k].score
              /\ \A j \in (1..Len(group)) \ {k} :
                    group[j].idx1 \in dup_idx64
        /\ dup_mask = { AsU32(i) : i \in dup_idx64 }
        /\ total_se_only = Len(group) - 1
        /\ total_orphan = 0 /\ total_pe = 0

---------------------------------------------------------------------------
(* C12 *)

\* The pair entries of a group, in the group's order.
PairsOf(g) == SelectSeq(g, LAMBDA m : m.ref_id2 # -1)

\* Two pair entries with one right end.
SameRightEnd(a, b) ==
    a.ref_id2 = b.ref_id2 /\ a.pos2 = b.pos2 /\ a.rev2 = b.rev2

\* Positions a..b of p are a maximal run of entries with one right end.
MaximalRun(p, a, b) ==
    /\ a <= b
    /\ \A j \in a..b : SameRightEnd(p[a], p[j])
    /\ a = 1 \/ ~SameRightEnd(p[a - 1], p[a])
    /\ b = Len(p) \/ ~SameRightEnd(p[b], p[b + 1])

\* The number of maximal runs of p.
RunCount(p) ==
    Cardinality({ a \in 1..Len(p) : a = 1 \/ ~SameRightEnd(p[a - 1], p[a]) })

\* C12: after identify_dups on a group with two or more pair entries, every
\* maximal run of pair entries with one right end has exactly one entry
\* whose indices are not in the duplicate-index set, that entry has the
\* greatest score of the run and is the last of the run with that score,
\* idx1 and idx2 of every other entry of the run are in the set, and the
\* pe count is twice the number of those other entries; fragments in the
\* group change none of it.
C12_PairRuns ==
    LET p == PairsOf(group)
    IN (pc = "classified" /\ Len(p) >= 2) =>
        /\ \A a, b \in 1..Len(p) :
              MaximalRun(p, a, b) =>
                \E k \in a..b :
                    /\ p[k].idx1 \notin dup_mask /\ p[k].idx2 \notin dup_mask
                    /\ \A j \in a..b : p[j].score <= p[k].score
                    /\ \A j \in (k + 1)..b : p[j].score < p[k].score
                    /\ \A j \in (a..b) \ {k} :
                          p[j].idx1 \in dup_mask /\ p[j].idx2 \in dup_mask
        /\ total_pe = 2 * (Len(p) - RunCount(p))

\* C12 with the cast in it: the same for the indices identify_dups passes
\* to insert, each of which is in the set under the u32 it is cast to.
C12_PairRunsByKey ==
    LET p == PairsOf(group)
    IN (pc = "classified" /\ Len(p) >= 2) =>
        /\ \A a, b \in 1..Len(p) :
              MaximalRun(p, a, b) =>
                \E k \in a..b :
                    /\ p[k].idx1 \notin dup_idx64
                    /\ p[k].idx2 \notin dup_idx64
                    /\ \A j \in a..b : p[j].score <= p[k].score
                    /\ \A j \in (k + 1)..b : p[j].score < p[k].score
                    /\ \A j \in (a..b) \ {k} :
                          p[j].idx1 \in dup_idx64 /\ p[j].idx2 \in dup_idx64
        /\ dup_mask = { AsU32(i) : i \in dup_idx64 }
        /\ total_pe = 2 * (Len(p) - RunCount(p))

---------------------------------------------------------------------------
(* C13 *)

\* The fields the order of the merged stream is stated over.
OrderKey(m) == <<m.lib_id, m.ref_id1, m.pos1, m.rev1, m.rev2, m.ref_id2,
                 m.pos2, m.score, m.idx1, m.idx2>>

---------------------------------------------------------------------------
(* C14 *)

\* The run that serves as the reference: the first pass over inp from
\* position i with no spill at all, the entries kept as a set (so without
\* any order of emission or of the sweep), pend the pending-pair map and
\* pe2 the second ends so far.
RECURSIVE RefScan(_, _, _, _, _)
RefScan(inp, i, pend, ents, pe2) ==
    IF i > Len(inp)
    THEN [ents |-> ents \cup { ResidueEntry(pend[n]) : n \in DOMAIN pend },
          pe2 |-> pe2]
    ELSE LET r == inp[i]
             rev == is_reverse_complemented(r.flag)
         IN IF Skipped(r.flag) THEN RefScan(inp, i + 1, pend, ents, pe2)
            ELSE IF Pairable(r.flag)
            THEN IF r.name \in DOMAIN pend
                 THEN LET m == pend[r.name]
                          e == PairEntry(r.lib, r.ref, r.pos, rev, r.score,
                                         i - 1, m)
                      IN RefScan(inp, i + 1, MapRemove(pend, r.name),
                                 ents \cup {e},
                                 pe2 \cup {SecondEndKey(e, m.lib)})
                 ELSE RefScan(inp, i + 1,
                              MapInsert(pend, r.name, PendingOf(r, i - 1)),
                              ents, pe2)
            ELSE RefScan(inp, i + 1, pend,
                         ents \cup {FragmentEntry(r.lib, r.ref, r.pos, rev,
                                                  r.score, i - 1)},
                         pe2)

\* The entries of a set in ascending order.
RECURSIVE SortedOf(_)
SortedOf(S) ==
    IF S = {} THEN <<>>
    ELSE LET m == CHOOSE x \in S : \A y \in S : ~MetaLess(y, x)
         IN <<m>> \o SortedOf(S \ {m})

\* The length of the first group of a sorted stream.
FirstGroupLen(s) ==
    Cardinality({ k \in 1..Len(s) :
                    \A j \in 1..k : GroupKey(s[j]) = GroupKey(s[1]) })

\* identify_dups over the groups of a sorted stream, one after the other.
RECURSIVE RefClassify(_, _, _)
RefClassify(s, mask, pe2) ==
    IF s = <<>> THEN mask
    ELSE LET n == FirstGroupLen(s)
         IN RefClassify(SubSeq(s, n + 1, Len(s)),
                        identify_dups(SubSeq(s, 1, n), mask, pe2).mask, pe2)

\* The duplicate-index set of the reference run: a function of the input
\* and of nothing else.
RefMask(inp) ==
    LET r == RefScan(inp, 1, <<>>, {}, {})
    IN RefClassify(SortedOf(r.ents), {}, r.pe2)

\* The record the second pass writes for input position k under a mask.
RefOutput(inp, k, mask) ==
    IF Toggles(inp[k].flag)
    THEN toggle_duplicate_flag(record_to_bytes(inp[k]),
                               AsU32(k - 1) \in mask)
    ELSE record_to_bytes(inp[k])

\* C14: after classification the duplicate-index set is the one of the
\* reference run on the same input, and every record written carries the
\* flag that set gives it: for every batch size and every order of the
\* end-of-input sweep, so that two runs on one input agree.
C14_Deterministic ==
    pc = "write" =>
        LET ref == RefMask(input)
        IN /\ dup_mask = ref
           /\ \A k \in 1..Len(output) :
                 output[k] = RefOutput(input, k, ref)

\* A finished run with batches of one entry, two spill files, two reads
\* swept from the pending-pair map (in either order) and a marked record.
C14_Witness ==
    /\ Done
    /\ batch_size = 1
    /\ Len(tmp_files) = 2
    /\ Cardinality(SweptIdx) >= 2
    /\ dup_mask # {}

---------------------------------------------------------------------------
(* C15: runs on inputs that already carry DUPLICATE flags.                 *)

\* Records with and without the DUPLICATE flag: a fragment, a paired read
\* named "a" at two coordinates, a secondary alignment and an unmapped
\* read that carry the flag.
RerunRecords ==
    RecordSet({0, DUPLICATE_FLAG}, {"f"}, {0}, {<<0, 5>>}, {1})
    \cup RecordSet({SEGMENTED, SEGMENTED + DUPLICATE_FLAG}, {"a"}, {0},
                   {<<0, 5>>, <<0, 7>>}, {1})
    \cup RecordSet({SEGMENTED + SECONDARY + DUPLICATE_FLAG}, {"a"}, {0},
                   {<<0, 5>>}, {1})
    \cup RecordSet({UNMAPPED + DUPLICATE_FLAG}, {"u"}, {0}, {<<-1, -1>>},
                   {0})

NextRerun ==
    \/ ScanRecord(RerunRecords)
    \/ EndOfInput
    \/ MergePop
    \/ MergeFinish
    \/ WriteRecord

SpecRerun == Init /\ [][NextRerun]_vars

\* The input without its DUPLICATE flags.
StripDup(inp) ==
    [k \in 1..Len(inp) |-> [inp[k] EXCEPT !.flag = ClearDup(@)]]

\* The output read back as an input: each record with the flag that was
\* written for it.
Reread(inp, out) ==
    [k \in 1..Len(inp) |-> [inp[k] EXCEPT !.flag = FlagOfBytes(out[k])]]

\* C15: at the end of a run, the duplicate-index set is the one the input
\* gives without its DUPLICATE flags; the run on the output computes the
\* same set; and the rewriter, applied to the output with that set, writes
\* every record as it is in the output.
C15_Idempotent ==
    Done =>
        /\ dup_mask = RefMask(input)
        /\ dup_mask = RefMask(StripDup(input))
        /\ RefMask(Reread(input, output)) = dup_mask
        /\ \A k \in 1..Len(output) :
              RefOutput(Reread(input, output), k, dup_mask) = output[k]

\* A finished run that cleared a DUPLICATE flag the input carried and set
\* one it did not carry.
C15_Witness ==
    /\ Done
    /\ \E k \in 1..Len(output) :
          /\ HasBit(input[k].flag, DUPLICATE_FLAG)
          /\ ~HasBit(FlagOfBytes(output[k]), DUPLICATE_FLAG)
    /\ \E k \in 1..Len(output) :
          /\ ~HasBit(input[k].flag, DUPLICATE_FLAG)
          /\ HasBit(FlagOfBytes(output[k]), DUPLICATE_FLAG)

---------------------------------------------------------------------------
(* Metadata's binary form (src/src/metadata.rs) and a spill file's bytes.  *)


\* x.to_le_bytes() in n bytes; a negative x comes out in two's complement.
RECURSIVE to_le_bytes(_, _)
to_le_bytes(x, n) ==
    IF n = 0 THEN <<>> ELSE <<x % 256>> \o to_le_bytes(x \div 256, n - 1)

\* u32::from_le_bytes, u64::from_le_bytes and a u8.
RECURSIVE from_le_bytes(_)
from_le_bytes(b) ==
    IF b = <<>> THEN 0 ELSE Head(b) + 256 * from_le_bytes(Tail(b))

\* i32::from_le_bytes: the top bit of the last byte is the sign.
from_le_bytes_i32(b) ==
    b[1] + 256 * b[2] + 65536 * b[3]
      + 16777216 * (IF b[4] >= 128 THEN b[4] - 256 ELSE b[4])

\* Metadata::write_to: the fields in the order they are written.
write_to(m) ==
    to_le_bytes(m.lib_id, 4) \o to_le_bytes(m.ref_id1, 4)
      \o to_le_bytes(m.pos1, 4) \o <<m.rev1, m.rev2>>
      \o to_le_bytes(m.ref_id2, 4) \o to_le_bytes(m.pos2, 4)
      \o to_le_bytes(m.score, 4) \o to_le_bytes(m.idx1, 8)
      \o to_le_bytes(m.idx2, 8) \o <<m.paired_end>>

\* Metadata::binary_size(), as the sum it is written as.
binary_size == 4 + 4 + 4 + 2 + 4 + 4 + 4 + 8 + 8 + 1

\* The widths of the buffers read_from fills after the first one, in
\* order: buf4, buf4, buf2, buf4, buf4, buf4, buf8, buf8, buf1.
LaterReads == <<4, 4, 2, 4, 4, 4, 8, 8, 1>>

\* r.read_exact(buf) for each width of ws in turn: the buffers filled and
\* the bytes left, or the failure of the first read that runs short.
RECURSIVE read_exact_all(_, _)
read_exact_all(s, ws) ==
    IF ws = <<>> THEN [ok |-> TRUE, bufs |-> <<>>, rest |-> s]
    ELSE IF Len(s) < Head(ws) THEN [ok |-> FALSE, bufs |-> <<>>, rest |-> s]
    ELSE LET t == read_exact_all(SubSeq(s, Head(ws) + 1, Len(s)), Tail(ws))
         IN IF t.ok
            THEN [ok |-> TRUE, bufs |-> <<SubSeq(s, 1, Head(ws))>> \o t.bufs,
                  rest |-> t.rest]
            ELSE t

\* Whether the first read_exact(&mut buf4) of read_from fails.
FirstReadFails(s) == Len(s) < 4

\* Mutant: the two bytes of buf2 taken the other way round.
RevPair_Swapped(buf2) == <<buf2[2], buf2[1]>>

\* (rev1, rev2) = (buf2[0], buf2[1]).
RevPair(buf2) == <<buf2[1], buf2[2]>>

\* Metadata::read_from on the bytes s: Ok(None) ("none"), Err ("err"), or
\* Ok(Some(value)) ("some") with the bytes left after it.
Metadata_read_from(s) ==
    IF FirstReadFails(s) THEN [kind |-> "none", rest |-> s]
    ELSE LET r == read_exact_all(SubSeq(s, 5, Len(s)), LaterReads)
             b == r.bufs
         IN IF ~r.ok THEN [kind |-> "err", rest |-> s]
            ELSE [kind |-> "some", rest |-> r.rest,
                  value |->
                    [lib_id |-> from_le_bytes_i32(SubSeq(s, 1, 4)),
                     ref_id1 |-> from_le_bytes_i32(b[1]),
                     pos1 |-> from_le_bytes_i32(b[2]),
                     rev1 |-> RevPair(b[3])[1],
                     rev2 |-> RevPair(b[3])[2],
                     ref_id2 |-> from_le_bytes_i32(b[4]),
                     pos2 |-> from_le_bytes_i32(b[5]),
                     score |-> from_le_bytes(b[6]),
                     idx1 |-> from_le_bytes(b[7]),
                     idx2 |-> from_le_bytes(b[8]),
                     paired_end |-> from_le_bytes(b[9])]]

\* The entries written: fragments (one at a negative 5' position), a swept
\* read and two pairs, with values of one, two, three and four bytes.
CodecEntries ==
    { FragmentEntry(0, 0, 5, FALSE, 1, 0),
      FragmentEntry(0, 0, -2, TRUE, 255, 1),
      FragmentEntry(1, 2, 300, TRUE, 600, 70000),
      ResidueEntry([lib |-> 0, ref |-> 1, pos |-> 65543, rev |-> TRUE,
                    score |-> 256, idx |-> 256]),
      PairEntry(0, 0, 5, FALSE, 40, 3,
                [lib |-> 0, ref |-> 0, pos |-> 7, rev |-> TRUE,
                 score |-> 41, idx |-> 2]),
      PairEntry(1, 3, 70000, TRUE, 300, 16777217,
                [lib |-> 1, ref |-> 1, pos |-> 300, rev |-> FALSE,
                 score |-> 70000, idx |-> 65536]) }

\* The batches save_chunk_parallel is given: distinct entries in any order.
CodecChunks ==
    UNION { { c \in [1..n -> CodecEntries] :
                \A i, j \in 1..n : i # j => c[i] # c[j] } :
            n \in 0..MaxWrite }

InitCodec ==
    /\ remove_duplicates = FALSE
    /\ batch_size = MaxWrite
    /\ pc = "save"
    /\ input = <<>>
    /\ pending_pairs = <<>>
    /\ chunk \in CodecChunks
    /\ tmp_files = <<>>
    /\ pe_second_ends = {}
    /\ pe_count = 0
    /\ se_count = 0
    /\ unmatched_pairs_count = 0
    /\ heap = {}
    /\ readers = <<>>
    /\ merged = <<>>
    /\ group = <<>>
    /\ dup_mask = {}
    /\ dup_idx64 = {}
    /\ calls = <<>>
    /\ total_orphan = 0
    /\ total_pe = 0
    /\ total_se_only = 0
    /\ record_count = 0
    /\ output = <<>>
    /\ stream = <<>>
    /\ decoded = <<>>
    /\ status = "closed"
    /\ lost = 0

\* `for m in chunk { m.write_to(&mut enc)?; }`: the bytes of a file.
RECURSIVE WriteAll(_)
WriteAll(file) ==
    IF file = <<>> THEN <<>>
    ELSE write_to(Head(file)) \o WriteAll(Tail(file))

\* save_chunk_parallel on the batch: the file holds the sorted batch, and
\* stream is its bytes.
SaveChunk ==
    /\ pc = "save"
    /\ tmp_files' = Append(tmp_files, save_chunk_parallel(chunk))
    /\ stream' = WriteAll(save_chunk_parallel(chunk))
    /\ chunk' = <<>>
    /\ pc' = "saved"
    /\ UNCHANGED <<argVars, input, pending_pairs, pe_second_ends, pe_count,
                   se_count, unmatched_pairs_count, mergeVars, writeVars,
                   decoded, status, lost>>

\* The file loses its last n bytes, fewer than one record, before it is
\* read (a full disk, a crash of the writer): what read_from then meets is
\* a proper prefix of a record.
Truncate ==
    /\ pc = "saved"
    /\ lost = 0
    /\ \E n \in 1..(binary_size - 1) :
          /\ n <= Len(stream)
          /\ stream' = SubSeq(stream, 1, Len(stream) - n)
          /\ lost' = n
    /\ UNCHANGED <<pc, argVars, input, scanVars, mergeVars, writeVars,
                   decoded, status>>

\* open_chunk_reader on the file.
open_chunk_reader ==
    /\ pc = "saved"
    /\ status' = "open"
    /\ pc' = "read"
    /\ UNCHANGED <<argVars, input, scanVars, mergeVars, writeVars, stream,
                   decoded, lost>>

\* One call of Metadata::read_from on the reader. After Ok(None) and after
\* Err, stream stays the bytes the call met.
ReadFrom ==
    /\ pc = "read"
    /\ status = "open"
    /\ LET r == Metadata_read_from(stream)
       IN IF r.kind = "some"
          THEN /\ decoded' = Append(decoded, r.value)
               /\ stream' = r.rest
               /\ UNCHANGED status
          ELSE /\ status' = IF r.kind = "none" THEN "eof" ELSE "error"
               /\ UNCHANGED <<stream, decoded>>
    /\ UNCHANGED <<pc, argVars, input, scanVars, mergeVars, writeVars, lost>>

NextCodec ==
    \/ SaveChunk
    \/ Truncate
    \/ open_chunk_reader
    \/ ReadFrom

SpecCodec == InitCodec /\ [][NextCodec]_vars

---------------------------------------------------------------------------
(* C16 *)

\* C16: read_from returns Ok(None) only on a stream with no bytes left,
\* and when it meets 1 to 42 bytes, a proper prefix of a record, it returns
\* an error.
C16_EofOrError ==
    /\ status = "eof" => stream = <<>>
    /\ (status \in {"eof", "error"} /\ Len(stream) \in 1..(binary_size - 1))
          => status = "error"

\* What holds of read_from: it returns Ok(None) when fewer than 4 bytes are
\* left (none, or 1 to 3 of a cut record), and an error when 4 to 42 are.
C16_ErrorFromFourBytes ==
    /\ status = "eof" => Len(stream) < 4
    /\ status = "error" => Len(stream) \in 4..(binary_size - 1)
    /\ (status \in {"eof", "error"} /\ Len(stream) \in 4..(binary_size - 1))
          => status = "error"
    /\ (status \in {"eof", "error"} /\ Len(stream) < 4) => status = "eof"

---------------------------------------------------------------------------
(* C17 *)

\* The file written, as the entries it was given (empty before the save).
FileWritten == IF tmp_files = <<>> THEN <<>> ELSE tmp_files[1]

\* C17: write_to gives every entry of the file binary_size() = 43 bytes
\* from which read_from returns that entry, field for field, and nothing
\* else; and on the bytes of the whole file, when none went missing,
\* read_from returns the entries of the file in order, one per 43 bytes,
\* never an error, and Ok(None) after the last one.
C17_RoundTrip ==
    /\ binary_size = 43
    /\ \A k \in 1..Len(FileWritten) :
          /\ Len(write_to(FileWritten[k])) = binary_size
          /\ Metadata_read_from(write_to(FileWritten[k])) =
                [kind |-> "some", rest |-> <<>>, value |-> FileWritten[k]]
    /\ (pc = "read" /\ lost = 0) =>
          /\ Len(decoded) <= Len(FileWritten)
          /\ decoded = SubSeq(FileWritten, 1, Len(decoded))
          /\ Len(stream) = binary_size * (Len(FileWritten) - Len(decoded))
          /\ status # "error"
          /\ status = "eof" => decoded = FileWritten

\* An undamaged file of a fragment and a pair, read to the end of stream.
C17_Witness ==
    /\ pc = "read"
    /\ lost = 0
    /\ status = "eof"
    /\ Len(decoded) = 2
    /\ decoded = FileWritten
    /\ \E k \in 1..2 : decoded[k].ref_id2 = -1 /\ decoded[k].rev1 = 1
    /\ \E k \in 1..2 : decoded[k].ref_id2 # -1

---------------------------------------------------------------------------
(* C18 *)

\* The group key of an entry, field by field.
KeyOf(m) == <<m.lib_id, m.ref_id1, m.pos1, m.rev1>>

\* The calls of identify_dups made with a group that is not empty.
CallsMade == SelectSeq(calls, LAMBDA g : g # <<>>)

\* C18: while the merge runs, the groups handed to identify_dups followed
\* by the group buffer are the merged stream; every group handed over
\* holds entries of one key and no two of them have the same key. When the
\* classification is over, the calls are one per key of the merged stream,
\* each with all the entries of its key in merged order, the last group
\* included; identify_dups is called with an empty group only for an empty
\* stream, and then nothing is marked.
C18_OneCallPerKey ==
    /\ pc = "merge" => Concat(calls) \o group = merged
    /\ \A c \in 1..Len(CallsMade) :
          \A k \in 1..Len(CallsMade[c]) :
              KeyOf(CallsMade[c][k]) = KeyOf(CallsMade[c][1])
    /\ \A c, d \in 1..Len(CallsMade) :
          c # d => KeyOf(CallsMade[c][1]) # KeyOf(CallsMade[d][1])
    /\ (pc = "write") =>
          /\ Concat(calls) = merged
          /\ Len(merged) = Len(Emitted)
          /\ Len(CallsMade) = Cardinality({ KeyOf(m) : m \in Range(merged) })
          /\ \A c \in 1..Len(CallsMade) :
                CallsMade[c] =
                    SelectSeq(merged,
                        LAMBDA m : KeyOf(m) = KeyOf(CallsMade[c][1]))
          /\ Len(calls) # Len(CallsMade) => merged = <<>>
          /\ merged = <<>> =>
                /\ dup_mask = {}
                /\ total_orphan = 0 /\ total_pe = 0 /\ total_se_only = 0

\* A finished classification of three merged entries in two groups, one of
\* them of two entries.
C18_Witness ==
    /\ pc = "write"
    /\ Len(merged) = 3
    /\ Len(calls) = 2
    /\ \E c \in 1..2 : Len(calls[c]) = 2

---------------------------------------------------------------------------
(* C19 *)

\* C19: every batch handed to save_chunk_parallel, the one written after
\* the end-of-input sweep included, holds at most batch_size entries.
C19_BatchBound ==
    \A f \in 1..Len(tmp_files) : Len(tmp_files[f]) <= batch_size

\* What holds of the batches: one spilled during the scan holds exactly
\* batch_size entries and the batch in memory fewer; the one written after
\* the sweep, if any, holds fewer than batch_size entries of the scan and
\* all the swept reads on top of them.
C19_ScanBatches ==
    /\ pc = "scan" =>
          /\ \A f \in 1..Len(tmp_files) : Len(tmp_files[f]) = batch_size
          /\ Len(chunk) < batch_size
    /\ pc # "scan" =>
          \A f \in 1..Len(tmp_files) :
              \/ Len(tmp_files[f]) = batch_size
              \/ /\ f = Len(tmp_files)
                 /\ Len(tmp_files[f]) - Cardinality(SweptIdx) < batch_size

---------------------------------------------------------------------------
(* C20: runs on inputs of up to two pairs.                                 *)

\* Paired reads named "a" and "b" at two coordinates, so that two pairs
\* can have both ends in common, with an unmapped read and a secondary
\* alignment among them.
PairRecords ==
    RecordSet({SEGMENTED}, {"a", "b"}, {0}, {<<0, 5>>, <<0, 7>>}, {1})
    \cup RecordSet({UNMAPPED}, {"u"}, {0}, {<<-1, -1>>}, {0})
    \cup RecordSet({SEGMENTED + SECONDARY}, {"a"}, {0}, {<<0, 5>>}, {1})

NextPairs ==
    \/ ScanUpTo(PairRecords, MaxPairRecs)
    \/ EndOfInput
    \/ MergePop
    \/ MergeFinish
    \/ WriteRecord

SpecPairs == Init /\ [][NextPairs]_vars

====
